---- MODULE Spec2Model ----
(***************************************************************************)
(* A model of the retrieval-augmented chatbot of chatbot.ipynb and of its  *)
(* conversation memory of conversation.ipynb.                              *)
(*                                                                         *)
(* A Python string is a sequence of tokens: a token is a whitespace-free   *)
(* run of characters (a word with its punctuation) or one whitespace       *)
(* character (" " or "\n").  String concatenation is \o.                   *)
(***************************************************************************)
EXTENDS Integers, Sequences, FiniteSets, TLC

(***************************************************************************)
(* Bounds of the model.                                                    *)
(***************************************************************************)
\* TTLCache(maxsize=1000, ttl=1800), scaled: the capacity in entries and the
\* time to live in clock ticks.
maxsize == 2
ttl == 3
\* The clock stops after MaxTime ticks.
MaxTime == 4
\* The list backend is explored up to MaxHistory entries.
MaxHistory == 3
\* The corpus is explored up to MaxChunks chunks.
MaxChunks == 3
\* process_text is explored on texts of up to MaxSentences sentences and
\* with chunk sizes up to MaxChunkSize characters.
MaxSentences == 3
MaxChunkSize == 32

NUMBER_OF_MATCHES == 3
CHUNK_SIZE == 99999

(***************************************************************************)
(* Strings.                                                                *)
(***************************************************************************)
Whitespace == {" ", "\n"}

\* A word of more than CHUNK_SIZE characters with no whitespace in it.
LongWord == "x...x"

\* len(tok) for one token.
TokenLen(tok) == IF tok = LongWord THEN CHUNK_SIZE + 1 ELSE Len(tok)

RECURSIVE StrLenRange(_, _, _)
\* The number of characters of s[lo..hi].
StrLenRange(s, lo, hi) ==
    IF lo > hi THEN 0
    ELSE IF lo = hi THEN TokenLen(s[lo])
    ELSE LET mid == (lo + hi) \div 2
         IN  StrLenRange(s, lo, mid) + StrLenRange(s, mid + 1, hi)

\* len(s): the number of characters of the string.
StrLen(s) == StrLenRange(s, 1, Len(s))

IsSpace(tok) == tok \in Whitespace
IsWord(tok) == tok \notin Whitespace

\* s.split(): the whitespace-separated words of the string.
Split(s) == SelectSeq(s, IsWord)

RECURSIVE Join(_, _)
\* sep.join(parts)
Join(sep, parts) ==
    IF parts = <<>> THEN <<>>
    ELSE IF Len(parts) = 1 THEN parts[1]
    ELSE parts[1] \o sep \o Join(sep, Tail(parts))

\* The positions of the string that hold a word.
WordPositions(s) == {i \in 1..Len(s) : IsWord(s[i])}

Min(S) == CHOOSE x \in S : \A y \in S : x <= y
Max(S) == CHOOSE x \in S : \A y \in S : y <= x

\* s.strip()
Strip(s) ==
    LET words == WordPositions(s)
    IN  IF words = {} THEN <<>> ELSE SubSeq(s, Min(words), Max(words))

\* A word that ends a sentence: its last character is a full stop.
EndsSentence(tok) ==
    tok \in {"purr.", "bark.", "nap.", "point.", "user.", "fine."}

RECURSIVE SentSplit(_, _, _)
\* The sentences of s from position `start` on: a sentence ends with the
\* next word that ends one, or with the text.
SentSplit(s, start, acc) ==
    LET ends == {i \in start..Len(s) : EndsSentence(s[i])}
        rest == Strip(SubSeq(s, start, Len(s)))
    IN  IF ends = {}
        THEN (IF rest = <<>> THEN acc ELSE Append(acc, rest))
        ELSE SentSplit(s, Min(ends) + 1,
                       Append(acc, Strip(SubSeq(s, start, Min(ends)))))

\* nltk's sent_tokenize: the sentences of the text, each without the
\* whitespace around it.
sent_tokenize(text) == SentSplit(text, 1, <<>>)

\* PorterStemmer.stem on one whitespace-separated word: lower case, suffix
\* stripped (a word that ends in punctuation keeps its suffix).
Stem(word) ==
    CASE word = "cats" -> "cat"
      [] word = "dogs" -> "dog"
      [] word = "This" -> "thi"
      [] word = "this" -> "thi"
      [] word = "entire" -> "entir"
      [] word = "conversation" -> "convers"
      [] word = "Use" -> "use"
      [] word = "additional" -> "addit"
      [] word = "answering" -> "answer"
      [] word = "CONTEXT:" -> "context:"
      [] word = "User:" -> "user:"
      [] word = "Search" -> "search"
      [] word = "Result" -> "result"
      [] word = "Context:" -> "context:"
      [] word = "LLM" -> "llm"
      [] word = "Response:" -> "response:"
      [] word = "USER" -> "user"
      [] word = "QUERY:" -> "query:"
      [] OTHER -> word

\* ' '.join(words)
SpaceJoin(words) ==
    [i \in 1..(2 * Len(words) - 1) |->
        IF i % 2 = 1 THEN words[(i + 1) \div 2] ELSE " "]

\* ' '.join([ps.stem(word) for word in chunk.split()])
StemChunk(chunk) ==
    LET words == Split(chunk)
    IN  SpaceJoin([i \in 1..Len(words) |-> Stem(words[i])])

RECURSIVE ProcessSentencesEager(_, _, _, _, _)
ProcessSentencesEager(sentences, chunk, original_chunks, processed_chunks, chunk_size) ==
    IF sentences = <<>>
    THEN IF chunk # <<>>
         THEN <<Append(original_chunks, chunk),
                Append(processed_chunks, StemChunk(chunk))>>
         ELSE <<original_chunks, processed_chunks>>
    ELSE LET sentence == Head(sentences) IN
         IF StrLen(chunk) + StrLen(sentence) >= chunk_size
         THEN ProcessSentencesEager(Tail(sentences), sentence,
                                    Append(original_chunks, chunk),
                                    Append(processed_chunks, StemChunk(chunk)),
                                    chunk_size)
         ELSE ProcessSentencesEager(Tail(sentences), chunk \o <<" ">> \o sentence,
                                    original_chunks, processed_chunks, chunk_size)

RECURSIVE ProcessSentences(_, _, _, _, _)
\* The loop of process_text over the sentences, and what follows it.
ProcessSentences(sentences, chunk, original_chunks, processed_chunks, chunk_size) ==
    IF sentences = <<>>
    THEN IF chunk # <<>>
         THEN <<Append(original_chunks, chunk),
                Append(processed_chunks, StemChunk(chunk))>>
         ELSE <<original_chunks, processed_chunks>>
    ELSE LET sentence == Head(sentences) IN
         IF StrLen(chunk) + StrLen(sentence) > chunk_size
         THEN ProcessSentences(Tail(sentences), sentence,
                               Append(original_chunks, chunk),
                               Append(processed_chunks, StemChunk(chunk)),
                               chunk_size)
         ELSE ProcessSentences(Tail(sentences), chunk \o <<" ">> \o sentence,
                               original_chunks, processed_chunks, chunk_size)

\* process_text(text, chunk_size): <<original_chunks, processed_chunks>>
process_text(text, chunk_size) ==
    ProcessSentences(sent_tokenize(text), <<>>, <<>>, <<>>, chunk_size)

(***************************************************************************)
(* The files, the queries and the replies the model draws from.            *)
(***************************************************************************)
Files == {"coffee.html", "climatechange.pdf", "report.docx"}

\* file_name.split('.')[-1]
FileType(file_name) ==
    CASE file_name = "coffee.html" -> "html"
      [] file_name = "climatechange.pdf" -> "pdf"
      [] file_name = "notes.txt" -> "txt"
      [] OTHER -> "docx"

\* The text the reader of a file extracts from it.
FileText(file_name) ==
    CASE file_name = "coffee.html" -> <<"cats", " ", "purr.">>
      [] file_name = "climatechange.pdf" ->
            <<"dogs", " ", "bark.", "\n", "cats", " ", "nap.">>
      [] OTHER -> <<"dogs", " ", "nap.">>

\* What the user types; LongQuery is longer than CHUNK_SIZE.
LongQuery == <<"dogs", " ", "bark.", " ", LongWord, " ", "cats">>

Queries == {<<"cats">>, <<"dogs", " ", "bark">>, <<"/reset">>, <<>>, LongQuery}

\* What the user types in a conversation.
UserQueries == {<<"cats">>, <<"/reset">>}

\* What the LLM answers.
Replies == {<<"dogs">>, <<"fine.">>}

TopNs == {1, 2, NUMBER_OF_MATCHES, MaxChunks + 1}

\* Every top_n from 0 on.
TopNsFrom0 == 0..(MaxChunks + 1)

\* The sentences of the texts process_text is explored on.
Sentences == {<<"cats", " ", "purr.">>, <<"dogs", " ", "bark.">>, <<"nap.">>}

\* The texts: up to MaxSentences sentences, with one space or one newline
\* between two sentences.
Texts ==
    {Join(<<sep>>, ss) :
        sep \in Whitespace,
        ss \in UNION {[1..n -> Sentences] : n \in 0..MaxSentences}}

\* The chunk sizes: the small ones, and the one the notebooks set.
ChunkSizes == (0..MaxChunkSize) \cup {CHUNK_SIZE}

(***************************************************************************)
(* The vector index: TfidfVectorizer, documents, original_documents,       *)
(* vectors.                                                                *)
(***************************************************************************)
VARIABLES documents, original_documents, vectors, vectorizer

\* TfidfVectorizer's analyzer on one stemmed word: lower case, punctuation
\* dropped; "" when the word holds no token of two or more word characters.
Term(word) ==
    CASE word = "purr." -> "purr"
      [] word = "bark." -> "bark"
      [] word = "nap." -> "nap"
      [] word = "point." -> "point"
      [] word = "user." -> "user"
      [] word = "fine." -> "fine"
      [] word = "context:" -> "context"
      [] word = "user:" -> "user"
      [] word = "response:" -> "response"
      [] word = "query:" -> "query"
      [] word = "/reset" -> "reset"
      [] word = "=========================" -> ""
      [] OTHER -> word

\* The terms of one stemmed chunk.
Terms(chunk) == {Term(chunk[i]) : i \in {j \in 1..Len(chunk) : IsWord(chunk[j])}} \ {""}

RECURSIVE Vocabulary(_)
\* The vocabulary a fit over the chunks learns.
Vocabulary(chunks) ==
    IF chunks = <<>> THEN {} ELSE Terms(Head(chunks)) \cup Vocabulary(Tail(chunks))

\* vectorizer.fit_transform(chunks): one row per chunk.
FitTransform(chunks) ==
    [set |-> TRUE,
     vocabulary |-> Vocabulary(chunks),
     rows |-> [i \in 1..Len(chunks) |-> Terms(chunks[i])]]

None == [set |-> FALSE, vocabulary |-> {}, rows |-> <<>>]

Unfitted == [fitted |-> FALSE, vocabulary |-> {}]

\* The words of the stemmed query that count in the product with one row:
\* a term outside the fitted vocabulary contributes nothing.
Similarity(query_chunk, row) ==
    Cardinality({i \in 1..Len(query_chunk) :
                    /\ IsWord(query_chunk[i])
                    /\ Term(query_chunk[i]) \in vectorizer.vocabulary
                    /\ Term(query_chunk[i]) \in row})

\* (query_vector * vectors.T).toarray()[0]: the row of the first query chunk.
Similarities(query_chunk) ==
    [i \in 1..Len(vectors.rows) |-> Similarity(query_chunk, vectors.rows[i])]

IndexOrders(n) ==
    {p \in [1..n -> 1..n] : \A i, j \in 1..n : i # j => p[i] # p[j]}

\* similarities.argsort()[0]: the indices in ascending order of similarity;
\* numpy's default sort is not stable, so equal values come in any order.
Argsort(sims) ==
    {p \in IndexOrders(Len(sims)) :
        \A i \in 1..(Len(sims) - 1) : sims[p[i]] <= sims[p[i + 1]]}

LastNWrapped(a, n) == [i \in 1..n |-> a[((i - 1) % Len(a)) + 1]]

\* a[-n:] for n >= 0: the last n elements, everything when n = 0 or n > len(a).
LastN(a, n) ==
    IF n = 0 \/ n >= Len(a) THEN a ELSE SubSeq(a, Len(a) - n + 1, Len(a))

NotReversed(a) == a

\* a[::-1]
Reverse(a) == [i \in 1..Len(a) |-> a[Len(a) + 1 - i]]

find_best_matches_unready(query, top_n, order) ==
    LET query_processed == process_text(query, CHUNK_SIZE)[2]
        sims == Similarities(query_processed[1])
        best_match_indices == Reverse(LastN(order, top_n))
        NoResult(e) == [error |-> e, similarities |-> <<>>, indices |-> <<>>,
                        original |-> <<>>, processed |-> <<>>]
    IN  IF ~vectorizer.fitted \/ ~vectors.set THEN NoResult("")
        ELSE IF query_processed = <<>> THEN NoResult("ValueError")
        ELSE IF Cardinality(vectors.vocabulary) # Cardinality(vectorizer.vocabulary)
             THEN NoResult("ValueError")
        ELSE IF \E i \in 1..Len(best_match_indices) :
                    best_match_indices[i] > Len(original_documents)
                    \/ best_match_indices[i] > Len(documents)
             THEN NoResult("IndexError")
        ELSE [error |-> "",
              similarities |-> sims,
              indices |-> best_match_indices,
              original |-> [i \in 1..Len(best_match_indices) |->
                                original_documents[best_match_indices[i]]],
              processed |-> [i \in 1..Len(best_match_indices) |->
                                documents[best_match_indices[i]]]]

\* find_best_matches(query, top_n), with `order` the outcome of argsort.
\* error is "" when the call returns.  The product query_vector * vectors.T
\* raises when the two do not have the same number of columns, one per term
\* of the vocabulary each was fitted with.
find_best_matches(query, top_n, order) ==
    LET query_processed == process_text(query, CHUNK_SIZE)[2]
        sims == Similarities(query_processed[1])
        best_match_indices == Reverse(LastN(order, top_n))
        NoResult(e) == [error |-> e, similarities |-> <<>>, indices |-> <<>>,
                        original |-> <<>>, processed |-> <<>>]
    IN  IF ~vectorizer.fitted THEN NoResult("NotFittedError")
        ELSE IF query_processed = <<>> THEN NoResult("ValueError")
        ELSE IF ~vectors.set THEN NoResult("AttributeError")
        ELSE IF Cardinality(vectors.vocabulary) # Cardinality(vectorizer.vocabulary)
             THEN NoResult("ValueError")
        ELSE IF \E i \in 1..Len(best_match_indices) :
                    best_match_indices[i] > Len(original_documents)
                    \/ best_match_indices[i] > Len(documents)
             THEN NoResult("IndexError")
        ELSE [error |-> "",
              similarities |-> sims,
              indices |-> best_match_indices,
              original |-> [i \in 1..Len(best_match_indices) |->
                                original_documents[best_match_indices[i]]],
              processed |-> [i \in 1..Len(best_match_indices) |->
                                documents[best_match_indices[i]]]]

\* The outcomes argsort can have for the query in the current state.
Orders(query) ==
    LET query_processed == process_text(query, CHUNK_SIZE)[2]
    IN  IF vectorizer.fitted /\ query_processed # <<>> /\ vectors.set
        THEN Argsort(Similarities(query_processed[1]))
        ELSE {<<>>}

\* "\n\n".join(original_best_matches)
Context(original_best_matches) == Join(<<"\n", "\n">>, original_best_matches)

(***************************************************************************)
(* The conversation memory: the list and the TTL cache.                    *)
(***************************************************************************)
VARIABLES conversation_history, conversation_ttl_cache, now

\* What the last call did: the texts it handed to find_best_matches and to
\* the LLM, the number of LLM calls it made, what it returned or raised.
VARIABLE last

vars == <<documents, original_documents, vectors, vectorizer,
          conversation_history, conversation_ttl_cache, now, last>>

index_vars == <<documents, original_documents, vectors, vectorizer>>
memory_vars == <<conversation_history, conversation_ttl_cache>>

NoCall ==
    [op |-> "", user_query |-> <<>>, top_n |-> 0,
     text |-> <<>>, chunk_size |-> 0, file_name |-> "", after_reset |-> FALSE,
     fbm_query |-> <<>>, similarities |-> <<>>, indices |-> <<>>,
     original |-> <<>>, processed |-> <<>>,
     llm_calls |-> 0, llm_query |-> <<>>, context |-> <<>>,
     error |-> "", response |-> <<>>, evicted |-> <<>>]

\* TTLCache: root is the list of links in order of expiry, each with its key,
\* its expiry time and its value; links is the order of use of the keys.
EmptyCache == [root |-> <<>>, links |-> <<>>]

CacheKeys(c) == {c.root[i].key : i \in 1..Len(c.root)}

RemoveKey(keys, key) == SelectSeq(keys, LAMBDA k : k # key)

\* Cache.__delitem__ and the unlinking of the key.
DelItem(c, key) ==
    [root |-> SelectSeq(c.root, LAMBDA l : l.key # key),
     links |-> RemoveKey(c.links, key)]

RECURSIVE Expire(_, _)
\* TTLCache.expire(time): drops the links at the head of root that are no
\* longer valid at `time`.
Expire(c, time) ==
    IF c.root # <<>> /\ ~(time < c.root[1].expires)
    THEN Expire(DelItem(c, c.root[1].key), time)
    ELSE c

PopKeyNewest(c) == c.links[Len(c.links)]

\* The key TTLCache.popitem removes: the least recently used one.
PopKey(c) == c.links[1]

\* TTLCache.popitem at `time`
PopItem(c, time) == LET c1 == Expire(c, time) IN DelItem(c1, PopKey(c1))

\* The keys __setitem__ evicts to make room for a new key.
Evicted(c, key, time) ==
    LET c1 == Expire(c, time)
    IN  IF key \notin CacheKeys(c1) /\ Len(c1.root) + 1 > maxsize
        THEN <<PopKey(c1)>> ELSE <<>>

\* TTLCache.__setitem__(key, value) at `time`
SetItem(c, key, value, time) ==
    LET c1 == Expire(c, time)
        c2 == IF key \notin CacheKeys(c1) /\ Len(c1.root) + 1 > maxsize
              THEN PopItem(c1, time) ELSE c1
    IN  [root |-> Append(SelectSeq(c2.root, LAMBDA l : l.key # key),
                         [key |-> key, expires |-> time + ttl, value |-> value]),
         links |-> Append(RemoveKey(c2.links, key), key)]

ValidLinksNoExpiry(c, time) == c.root

\* The links __iter__ yields at `time`: those that have not expired.
ValidLinks(c, time) == SelectSeq(c.root, LAMBDA l : time < l.expires)

\* list(cache.values()) at `time`
Values(c, time) ==
    LET valid == ValidLinks(c, time) IN [i \in 1..Len(valid) |-> valid[i].value]

\* The cache after list(cache.values()): __getitem__ makes each key it
\* reads the most recently used one.
Touched(c, time) ==
    LET valid == ValidLinks(c, time)
        keys == [i \in 1..Len(valid) |-> valid[i].key]
    IN  [root |-> c.root,
         links |-> SelectSeq(c.links, LAMBDA k : \A i \in 1..Len(keys) : keys[i] # k)
                   \o keys]

(***************************************************************************)
(* The composite prompt of conversation and conversation_cache.            *)
(***************************************************************************)
Separator == <<"\n", "\n", "=========================", "\n", "\n">>

\* f"User: {...}\nSearch Result Context: {...}\nLLM Response: {...}"
EntryText(entry) ==
    <<"User:", " ">> \o entry.user_input
    \o <<"\n", "Search", " ", "Result", " ", "Context:", " ">>
    \o entry.search_result_context
    \o <<"\n", "LLM", " ", "Response:", " ">> \o entry.llm_response

HistoryTextReversed(entries) ==
    Join(Separator,
         [i \in 1..Len(entries) |-> EntryText(entries[Len(entries) + 1 - i])])

\* "\n\n=========================\n\n".join([... for entry in entries])
HistoryText(entries) ==
    Join(Separator, [i \in 1..Len(entries) |-> EntryText(entries[i])])

Preamble ==
    <<"This", " ", "is", " ", "the", " ", "entire", " ", "conversation", " ",
      "up", " ", "to", " ", "this", " ", "point.", " ", "Use", " ", "this", " ",
      "as", " ", "additional", " ", "context", " ", "when", " ", "answering",
      " ", "the", " ", "question", " ", "from", " ", "the", " ", "user.", "\n",
      " ", "CONTEXT:", " ">>

\* The query of conversation: the preamble, the history, the user's query.
CompositeQuery(entries, user_query) ==
    Preamble \o HistoryText(entries) \o <<"\n", "\n">>
    \o Separator \o <<" ", "USER", " ", "QUERY:", " ">> \o user_query

(***************************************************************************)
(* The operations.                                                         *)
(***************************************************************************)
Init ==
    /\ documents = <<>>
    /\ original_documents = <<>>
    /\ vectors = None
    /\ vectorizer = Unfitted
    /\ conversation_history = <<>>
    /\ conversation_ttl_cache = EmptyCache
    /\ now = 0
    /\ last = NoCall

SupportedAny(file_name) == TRUE

\* The file types process_and_add_document has a reader for.
Supported(file_name) == FileType(file_name) \in {"pdf", "html", "txt"}

\* The call follows a reset_database() that discarded an indexed corpus.
AfterReset == last.op = "reset_database" /\ vectorizer.fitted

\* vectors = initialize(file_name)
Initialize(file_name) ==
    LET chunks == process_text(FileText(file_name), CHUNK_SIZE) IN
    /\ Len(documents) + Len(chunks[1]) <= MaxChunks
    /\ IF Supported(file_name)
       THEN /\ original_documents' = original_documents \o chunks[1]
            /\ documents' = documents \o chunks[2]
            /\ vectorizer' = [fitted |-> TRUE, vocabulary |-> Vocabulary(documents')]
            /\ vectors' = FitTransform(documents')
            /\ last' = [NoCall EXCEPT !.op = "initialize",
                                      !.file_name = file_name,
                                      !.after_reset = AfterReset]
       ELSE /\ UNCHANGED index_vars
            /\ last' = [NoCall EXCEPT !.op = "initialize",
                                      !.file_name = file_name,
                                      !.after_reset = AfterReset,
                                      !.error = "ValueError"]
    /\ UNCHANGED <<memory_vars, now>>

\* initialize(file_name) as a statement: the matrix it returns is not
\* assigned to vectors.
InitializeUnassigned(file_name) ==
    LET chunks == process_text(FileText(file_name), CHUNK_SIZE) IN
    /\ Len(documents) + Len(chunks[1]) <= MaxChunks
    /\ IF Supported(file_name)
       THEN /\ original_documents' = original_documents \o chunks[1]
            /\ documents' = documents \o chunks[2]
            /\ vectorizer' = [fitted |-> TRUE, vocabulary |-> Vocabulary(documents')]
            /\ UNCHANGED vectors
            /\ last' = [NoCall EXCEPT !.op = "initialize",
                                      !.file_name = file_name,
                                      !.after_reset = AfterReset]
       ELSE /\ UNCHANGED index_vars
            /\ last' = [NoCall EXCEPT !.op = "initialize",
                                      !.file_name = file_name,
                                      !.after_reset = AfterReset,
                                      !.error = "ValueError"]
    /\ UNCHANGED <<memory_vars, now>>

ResetDatabaseKeepsDocuments ==
    /\ original_documents' = <<>>
    /\ vectors' = None
    /\ last' = [NoCall EXCEPT !.op = "reset_database"]
    /\ UNCHANGED <<documents, vectorizer, memory_vars, now>>

ResetDatabaseKeepsOriginals ==
    /\ documents' = <<>>
    /\ vectors' = None
    /\ last' = [NoCall EXCEPT !.op = "reset_database"]
    /\ UNCHANGED <<original_documents, vectorizer, memory_vars, now>>

\* reset_database()
ResetDatabase ==
    /\ documents' = <<>>
    /\ original_documents' = <<>>
    /\ vectors' = None
    /\ last' = [NoCall EXCEPT !.op = "reset_database"]
    /\ UNCHANGED <<vectorizer, memory_vars, now>>

\* The setup cell of conversation.ipynb:
\* reset_database(); vectors = initialize(file_name)
Setup(file_name) ==
    LET chunks == process_text(FileText(file_name), CHUNK_SIZE) IN
    /\ IF Supported(file_name)
       THEN /\ original_documents' = chunks[1]
            /\ documents' = chunks[2]
            /\ vectorizer' = [fitted |-> TRUE, vocabulary |-> Vocabulary(documents')]
            /\ vectors' = FitTransform(documents')
            /\ last' = [NoCall EXCEPT !.op = "setup", !.file_name = file_name]
       ELSE /\ original_documents' = <<>>
            /\ documents' = <<>>
            /\ vectors' = None
            /\ UNCHANGED vectorizer
            /\ last' = [NoCall EXCEPT !.op = "setup", !.file_name = file_name,
                                      !.error = "ValueError"]
    /\ UNCHANGED <<memory_vars, now>>

\* What a call of find_best_matches leaves in `last`.
Found(call, query, top_n, res) ==
    [call EXCEPT !.fbm_query = query, !.top_n = top_n,
                 !.similarities = res.similarities, !.indices = res.indices,
                 !.original = res.original, !.processed = res.processed,
                 !.error = res.error]

\* find_best_matches(query, top_n)
FindBestMatches(query, top_n) ==
    /\ \E order \in Orders(query) :
          last' = Found([NoCall EXCEPT !.op = "find_best_matches"], query, top_n,
                        find_best_matches(query, top_n, order))
    /\ UNCHANGED <<index_vars, memory_vars, now>>

\* process_chat(user_query) once find_best_matches has returned or raised
\* `res`: what the call leaves in `last`; the LLM answers with `reply` when
\* llm_ok and fails otherwise.
ProcessChat(call, query, res, llm_ok, reply) ==
    LET found == Found(call, query, NUMBER_OF_MATCHES, res)
        called == [found EXCEPT !.llm_calls = 1, !.llm_query = query,
                                !.context = Context(res.original)]
    IN  IF res.error # "" THEN found
        ELSE IF ~llm_ok THEN [called EXCEPT !.error = "UpstreamError"]
        ELSE [called EXCEPT !.response = reply]

\* An exception ends the call where it is raised: the statements after
\* process_chat run only when it returned.
ReturnedAlways(call) == TRUE

Returned(call) == call.error = ""

\* chat(user_query); the LLM answers with `reply` when llm_ok and fails
\* otherwise.
Chat(user_query, llm_ok, reply) ==
    /\ \E order \in Orders(user_query) :
          LET res == find_best_matches(user_query, NUMBER_OF_MATCHES, order) IN
             last' = ProcessChat([NoCall EXCEPT !.op = "chat",
                                                !.user_query = user_query],
                                 user_query, res, llm_ok, reply)
    /\ UNCHANGED <<index_vars, memory_vars, now>>

add_to_conversation_first(history, user_input, search_result_context, llm_response) ==
    <<[user_input |-> user_input,
       search_result_context |-> search_result_context,
       llm_response |-> llm_response]>> \o history

\* add_to_conversation(user_input, search_result_context, llm_response)
add_to_conversation(history, user_input, search_result_context, llm_response) ==
    Append(history, [user_input |-> user_input,
                     search_result_context |-> search_result_context,
                     llm_response |-> llm_response])

\* add_to_conversation_cache(user_input, search_result_context, llm_response)
\* when datetime.now() reads `time`
add_to_conversation_cache(cache, user_input, search_result_context, llm_response, time) ==
    SetItem(cache, time,
            [user_input |-> user_input,
             search_result_context |-> search_result_context,
             llm_response |-> llm_response,
             timestamp |-> time],
            time)

\* conversation(user_query)
Conversation(user_query, llm_ok, reply) ==
    LET query == CompositeQuery(conversation_history, user_query) IN
    /\ Len(conversation_history) < MaxHistory
    /\ \E order \in Orders(query) :
          \E call \in {ProcessChat([NoCall EXCEPT !.op = "conversation",
                                                    !.user_query = user_query],
                                     query,
                                     find_best_matches(query, NUMBER_OF_MATCHES, order),
                                     llm_ok, reply)} :
                 /\ last' = call
                 /\ conversation_history' =
                       IF Returned(call)
                       THEN add_to_conversation(conversation_history, user_query,
                                                call.context, call.response)
                       ELSE conversation_history
    /\ UNCHANGED <<index_vars, conversation_ttl_cache, now>>

\* conversation_cache(user_query)
ConversationCache(user_query, llm_ok, reply) ==
    LET conversation_history_cache == Values(conversation_ttl_cache, now)
        read == Touched(conversation_ttl_cache, now)
        query == CompositeQuery(conversation_history_cache, user_query)
    IN
    /\ \E order \in Orders(query) :
          \E call \in {ProcessChat([NoCall EXCEPT !.op = "conversation_cache",
                                                    !.user_query = user_query],
                                     query,
                                     find_best_matches(query, NUMBER_OF_MATCHES, order),
                                     llm_ok, reply)} :
                 IF Returned(call)
                 THEN /\ conversation_ttl_cache' =
                            add_to_conversation_cache(read, user_query, call.context,
                                                      call.response, now)
                      /\ last' = [call EXCEPT !.evicted = Evicted(read, now, now)]
                 ELSE /\ conversation_ttl_cache' = read
                      /\ last' = call
    /\ UNCHANGED <<index_vars, conversation_history, now>>

\* A direct call of add_to_conversation_cache.
AddToConversationCache(user_input, llm_response) ==
    /\ conversation_ttl_cache' =
          add_to_conversation_cache(conversation_ttl_cache, user_input, <<>>,
                                    llm_response, now)
    /\ last' = [NoCall EXCEPT !.op = "add_to_conversation_cache",
                              !.user_query = user_input,
                              !.response = llm_response,
                              !.evicted = Evicted(conversation_ttl_cache, now, now)]
    /\ UNCHANGED <<index_vars, conversation_history, now>>

\* The same round recorded in both memories:
\* add_to_conversation(...); add_to_conversation_cache(...)
Record(user_input, llm_response) ==
    /\ Len(conversation_history) < MaxHistory
    /\ conversation_history' =
          add_to_conversation(conversation_history, user_input, <<>>, llm_response)
    /\ conversation_ttl_cache' =
          add_to_conversation_cache(conversation_ttl_cache, user_input, <<>>,
                                    llm_response, now)
    /\ last' = [NoCall EXCEPT !.op = "record",
                              !.user_query = user_input,
                              !.response = llm_response,
                              !.evicted = Evicted(conversation_ttl_cache, now, now)]
    /\ UNCHANGED <<index_vars, now>>

\* conversation_history = []
ClearHistory ==
    /\ conversation_history' = <<>>
    /\ last' = [NoCall EXCEPT !.op = "clear_history"]
    /\ UNCHANGED <<index_vars, conversation_ttl_cache, now>>

\* Time passes.
Tick ==
    /\ now < MaxTime
    /\ now' = now + 1
    /\ last' = NoCall
    /\ UNCHANGED <<index_vars, memory_vars>>

\* A call of process_text(text, chunk_size) about to be made.
CallProcessText(text, chunk_size) ==
    [NoCall EXCEPT !.op = "call process_text", !.text = text,
                   !.chunk_size = chunk_size]

\* process_text(text, chunk_size), for the text and the chunk size of the
\* call about to be made.
ProcessText ==
    LET chunks == process_text(last.text, last.chunk_size) IN
    /\ last.op = "call process_text"
    /\ last' = [last EXCEPT !.op = "process_text",
                            !.original = chunks[1], !.processed = chunks[2]]
    /\ UNCHANGED <<index_vars, memory_vars, now>>

(***************************************************************************)
(* The specifications.                                                     *)
(***************************************************************************)
SetupFiles == {"coffee.html", "report.docx"}

\* The conversation notebook: the setup cell, then conversations with the
\* list or with the TTL cache as the memory, at one reading of the clock.
Next ==
    \/ \E f \in SetupFiles : Setup(f)
    \/ \E q \in UserQueries, llm_ok \in BOOLEAN, r \in Replies :
          Conversation(q, llm_ok, r)
    \/ \E q \in UserQueries, llm_ok \in BOOLEAN :
          ConversationCache(q, llm_ok, <<"fine.">>)
    \/ ClearHistory

Spec == Init /\ [][Next]_vars

\* The TTL cache as time passes.
NextCache ==
    \/ Setup("coffee.html")
    \/ \E q \in UserQueries : ConversationCache(q, TRUE, <<"dogs">>)
    \/ AddToConversationCache(<<"cats">>, <<"fine.">>)
    \/ Tick

SpecCache == Init /\ [][NextCache]_vars

\* The chatbot notebook: the index and its queries.
NextIndex ==
    \/ \E f \in Files : Initialize(f)
    \/ ResetDatabase
    \/ \E q \in Queries, n \in TopNs : FindBestMatches(q, n)
    \/ \E q \in Queries, llm_ok \in BOOLEAN, r \in Replies : Chat(q, llm_ok, r)

SpecIndex == Init /\ [][NextIndex]_vars

\* The index with a caller that may drop what initialize returns.
NextCaller ==
    \/ \E f \in Files : Initialize(f)
    \/ \E f \in Files : InitializeUnassigned(f)
    \/ ResetDatabase
    \/ \E q \in Queries, n \in TopNs : FindBestMatches(q, n)

SpecCaller == Init /\ [][NextCaller]_vars

\* The index queried with every top_n.
NextTopN ==
    \/ \E f \in Files : Initialize(f)
    \/ \E q \in Queries, n \in TopNsFrom0 : FindBestMatches(q, n)

SpecTopN == Init /\ [][NextTopN]_vars

\* The two memories side by side: every round is recorded in both.
NextBackends ==
    \/ \E q \in UserQueries, r \in Replies : Record(q, r)
    \/ Tick

SpecBackends == Init /\ [][NextBackends]_vars

\* process_text on its own: one call, on any of the texts with any of the
\* chunk sizes.
InitText ==
    /\ documents = <<>>
    /\ original_documents = <<>>
    /\ vectors = None
    /\ vectorizer = Unfitted
    /\ conversation_history = <<>>
    /\ conversation_ttl_cache = EmptyCache
    /\ now = 0
    /\ \E text \in Texts, chunk_size \in ChunkSizes :
          last = CallProcessText(text, chunk_size)

NextText == ProcessText

SpecText == InitText /\ [][NextText]_vars

(***************************************************************************)
(* The claims.                                                             *)
(***************************************************************************)
MemoryAware == {"conversation", "conversation_cache"}

\* The entry a successful round records, as `last` describes the round.
RoundEntry(call) ==
    [user_input |-> call.user_query,
     search_result_context |-> call.context,
     llm_response |-> call.response]

\* The entries of the cache's snapshot without their timestamps.
\* C1: when conversation or conversation_cache receives the literal /reset
\* after two entries have been recorded, the memory is emptied, the LLM is
\* not called and no entry is recorded for the input.
C1_ResetEmptiesMemory ==
    [][/\ (/\ last'.op = "conversation"
           /\ last'.user_query = <<"/reset">>
           /\ Len(conversation_history) = 2)
          => (conversation_history' = <<>> /\ last'.llm_calls = 0)
       /\ (/\ last'.op = "conversation_cache"
           /\ last'.user_query = <<"/reset">>
           /\ Len(Values(conversation_ttl_cache, now)) = 2)
          => (Values(conversation_ttl_cache', now') = <<>> /\ last'.llm_calls = 0)]_vars

\* C4: when the retrieval step or the LLM call fails inside conversation or
\* conversation_cache, the list and the cache are what they were before the
\* call: nothing is recorded for the failed round.
C4_FailedRoundRecordsNothing ==
    [][(last'.op \in MemoryAware /\ last'.error # "")
        => /\ conversation_history' = conversation_history
           /\ conversation_ttl_cache' = conversation_ttl_cache
           /\ Values(conversation_ttl_cache', now') = Values(conversation_ttl_cache, now)]_vars

\* A failed LLM call and a failed retrieval, each with a round in memory.
C4_Witness ==
    /\ last.op = "conversation"
    /\ last.error = "UpstreamError"
    /\ last.llm_calls = 1
    /\ Len(conversation_history) >= 1

\* C5: a successful conversation(q) appends exactly one entry to
\* conversation_history: the raw q, the context retrieved in the call and the
\* reply returned; the entries recorded earlier stay as they are, in order.
C5_SuccessfulRoundAppended ==
    [][(last'.op = "conversation" /\ last'.error = "")
        => /\ conversation_history' = Append(conversation_history, RoundEntry(last'))
           /\ last'.context = Context(last'.original)]_vars

\* Two successful rounds with different content, in call order.
C5_Witness ==
    /\ last.op = "conversation"
    /\ last.error = ""
    /\ Len(conversation_history) = 2
    /\ conversation_history[1] # conversation_history[2]
    /\ conversation_history[2] = RoundEntry(last)

Occurs(part, text, p) ==
    /\ p + Len(part) - 1 <= Len(text)
    /\ SubSeq(text, p, p + Len(part) - 1) = part

RECURSIVE InOrderFrom(_, _, _)
\* The parts occur in the text one after the other, from position `from` on.
InOrderFrom(parts, text, from) ==
    IF parts = <<>> THEN TRUE
    ELSE LET at == {p \in from..Len(text) : Occurs(Head(parts), text, p)}
         IN  /\ at # {}
             /\ InOrderFrom(Tail(parts), text, Min(at) + Len(Head(parts)))

\* The user input and the response text of the entries, as the prompt
\* renders them, in the order of the entries.
RenderedParts(entries) ==
    [i \in 1..(2 * Len(entries)) |->
        IF i % 2 = 1
        THEN <<"User:", " ">> \o entries[(i + 1) \div 2].user_input \o <<"\n">>
        ELSE <<"LLM", " ", "Response:", " ">> \o entries[i \div 2].llm_response]

\* The prompt holds the entries in order and nothing else as an entry, and
\* ends with the user's query.
PromptOf(prompt, entries, user_query) ==
    /\ InOrderFrom(RenderedParts(entries), prompt, 1)
    /\ Cardinality({p \in 1..Len(prompt) : prompt[p] = "User:"}) = Len(entries)
    /\ Cardinality({p \in 1..Len(prompt) : prompt[p] = "Response:"}) = Len(entries)
    /\ Len(prompt) >= Len(user_query) + 1
    /\ SubSeq(prompt, Len(prompt) - Len(user_query), Len(prompt))
          = <<" ">> \o user_query

\* C6: the composite prompt of a memory-aware call holds, in insertion order,
\* the user input and the response of every entry valid when the call
\* starts, then the user's query, and no entry for the current round.
C6_PromptFromSnapshot ==
    [][/\ last'.op = "conversation" =>
             /\ PromptOf(last'.fbm_query, conversation_history, last'.user_query)
             /\ last'.llm_calls = 1 => last'.llm_query = last'.fbm_query
       /\ last'.op = "conversation_cache" =>
             /\ PromptOf(last'.fbm_query, Values(conversation_ttl_cache, now),
                         last'.user_query)
             /\ last'.llm_calls = 1 => last'.llm_query = last'.fbm_query]_vars

\* A third successful call: its prompt held the two rounds before it.
C6_Witness ==
    /\ last.op = "conversation"
    /\ last.error = ""
    /\ Len(conversation_history) = 3
    /\ conversation_history[1] # conversation_history[2]

\* C7: the text conversation and conversation_cache hand to
\* find_best_matches is the raw user query.
C7_RetrievalUsesRawQuery ==
    last.op \in MemoryAware => last.fbm_query = last.user_query

\* The step records an entry in the cache.
Recording ==
    \/ last'.op = "add_to_conversation_cache"
    \/ last'.op = "conversation_cache" /\ last'.error = ""

\* The entry the step records in the cache.
Recorded ==
    [user_input |-> last'.user_query,
     search_result_context |-> last'.context,
     llm_response |-> last'.response,
     timestamp |-> now]

\* C2: with maxsize entries in the cache, none of them expired, recording
\* one more entry at a new time leaves maxsize entries in the snapshot: the
\* first one recorded is gone, the others follow in insertion order, the new
\* one last.
C2_OldestEvictedFirst ==
    [][(/\ Recording
        /\ Len(Values(conversation_ttl_cache, now)) = maxsize
        /\ \A i \in 1..maxsize :
              Values(conversation_ttl_cache, now)[i].timestamp # now)
        => /\ Len(Values(conversation_ttl_cache', now')) = maxsize
           /\ Values(conversation_ttl_cache', now')
                 = Append(Tail(Values(conversation_ttl_cache, now)), Recorded)
           /\ \A i \in 1..(maxsize - 1) :
                 Values(conversation_ttl_cache', now')[i].timestamp
                    < Values(conversation_ttl_cache', now')[i + 1].timestamp]_vars

\* maxsize + 1 entries were recorded at different times, none has expired,
\* and the first one was evicted.
C2_Witness ==
    /\ last.op \in {"add_to_conversation_cache", "conversation_cache"}
    /\ last.evicted # <<>>
    /\ Len(Values(conversation_ttl_cache, now)) = maxsize
    /\ last.evicted[1] < Values(conversation_ttl_cache, now)[1].timestamp
    /\ now < last.evicted[1] + ttl

Snapshot == Values(conversation_ttl_cache, now)

InSnapshot(entries, timestamp) ==
    \E i \in 1..Len(entries) : entries[i].timestamp = timestamp

Matched == last.op \in {"find_best_matches", "chat"} /\ last.error = ""

\* The chunks of the corpus that the call did not return.
NotReturned ==
    {k \in 1..Len(last.similarities) :
        \A i \in 1..Len(last.indices) : last.indices[i] # k}

\* C8: for top_n >= 1 the chunks find_best_matches returns are in
\* non-increasing order of similarity to the query, and no chunk left out is
\* more similar than a chunk returned.
C8_DescendingSimilarity ==
    (Matched /\ last.top_n >= 1)
    => /\ \A i, j \in 1..Len(last.indices) :
             i < j => last.similarities[last.indices[i]]
                         >= last.similarities[last.indices[j]]
       /\ \A k \in NotReturned : \A i \in 1..Len(last.indices) :
             last.similarities[k] <= last.similarities[last.indices[i]]
       /\ Len(last.similarities) = Len(documents)
       /\ last.original = [i \in 1..Len(last.indices) |->
                              original_documents[last.indices[i]]]

\* Two chunks of different similarity returned, a third one left out.
C8_Witness ==
    /\ Matched
    /\ last.top_n = 2
    /\ Len(last.indices) = 2
    /\ Len(documents) = 3
    /\ last.similarities[last.indices[1]] > last.similarities[last.indices[2]]

\* The query has a sentence.
HasSentence(query) == process_text(query, CHUNK_SIZE)[2] # <<>>

\* C9: with chunks indexed and a query that has a sentence, find_best_matches
\* with top_n greater than the number of chunks returns every chunk exactly
\* once and raises nothing.
C9_TopNBeyondCorpus ==
    (/\ last.op = "find_best_matches"
     /\ HasSentence(last.fbm_query)
     /\ Len(documents) >= 1
     /\ last.top_n > Len(documents))
    => /\ last.error = ""
       /\ Len(last.indices) = Len(documents)
       /\ \A k \in 1..Len(documents) :
             Cardinality({i \in 1..Len(last.indices) : last.indices[i] = k}) = 1
       /\ last.original = [i \in 1..Len(last.indices) |->
                              original_documents[last.indices[i]]]
       /\ last.processed = [i \in 1..Len(last.indices) |->
                               documents[last.indices[i]]]

\* The default top_n of 3 on a corpus of two chunks.
C9_Witness ==
    /\ last.op = "find_best_matches"
    /\ last.error = ""
    /\ last.top_n = NUMBER_OF_MATCHES
    /\ Len(documents) = 2
    /\ Len(last.original) = 2

\* C10: of two chunks of equal similarity, find_best_matches places the one
\* indexed earlier first, and returns the earlier one when only one fits
\* within top_n.
C10_TiesInInsertionOrder ==
    Matched
    => /\ \A i, j \in 1..Len(last.indices) :
             (/\ i < j
              /\ last.similarities[last.indices[i]]
                    = last.similarities[last.indices[j]])
             => last.indices[i] < last.indices[j]
       /\ \A k \in NotReturned : \A i \in 1..Len(last.indices) :
             last.similarities[k] = last.similarities[last.indices[i]]
             => last.indices[i] < k

\* The call of process_text that `last` describes.
Chunked == last.op = "process_text"

\* The sentences of each chunk, chunk after chunk.
RECURSIVE ChunkSentences(_)
ChunkSentences(chunks) ==
    IF chunks = <<>> THEN <<>>
    ELSE sent_tokenize(Head(chunks)) \o ChunkSentences(Tail(chunks))

\* C11: for a non-empty document whose sentences are separated by single
\* spaces and a chunk_size of at least its length, process_text returns
\* exactly one original chunk, which is the document once the whitespace
\* around it is removed.
C11_WholeDocumentChunk ==
    (/\ Chunked
     /\ last.text # <<>>
     /\ last.text = Join(<<" ">>, sent_tokenize(last.text))
     /\ last.chunk_size >= StrLen(last.text))
    => /\ Len(last.original) = 1
       /\ Strip(last.original[1]) = last.text
       /\ Len(last.processed) = 1

\* A document of MaxSentences sentences chunked with a chunk_size of exactly
\* its length.
C11_Witness ==
    /\ Chunked
    /\ Len(sent_tokenize(last.text)) = MaxSentences
    /\ last.text = Join(<<" ">>, sent_tokenize(last.text))
    /\ last.chunk_size = StrLen(last.text)
    /\ Len(last.original) = 1

\* C12: process_text never splits a sentence: the sentences of the chunks,
\* chunk after chunk, are the sentences of the text; every chunk holds a
\* sentence; a sentence longer than chunk_size is alone in its chunk; a
\* text of one sentence longer than chunk_size gives one chunk, the sentence.
C12_SentencesKeptWhole ==
    Chunked
    => LET sentences == sent_tokenize(last.text) IN
       /\ ChunkSentences(last.original) = sentences
       /\ \A i \in 1..Len(last.original) :
             /\ sent_tokenize(last.original[i]) # <<>>
             /\ \A j \in 1..Len(sent_tokenize(last.original[i])) :
                   StrLen(sent_tokenize(last.original[i])[j]) > last.chunk_size
                   => Len(sent_tokenize(last.original[i])) = 1
       /\ (Len(sentences) = 1 /\ StrLen(sentences[1]) > last.chunk_size)
             => /\ Len(last.original) = 1
                /\ Strip(last.original[1]) = sentences[1]

\* C20: a chunk of process_text that holds two or more sentences has at most
\* chunk_size characters.
C20_ChunkWithinSize ==
    Chunked
    => \A i \in 1..Len(last.original) :
          Len(sent_tokenize(last.original[i])) >= 2
          => StrLen(last.original[i]) <= last.chunk_size

\* C13: original_documents and documents have the same length and
\* documents[i] is the stemmed form of original_documents[i], whatever
\* initialize calls (failed ones too) and reset_database calls were made; the
\* two lists find_best_matches returns pair the original and the stemmed text
\* of the same chunk.
C13_ParallelLists ==
    /\ Len(original_documents) = Len(documents)
    /\ \A i \in 1..Len(documents) :
          documents[i] = StemChunk(original_documents[i])
    /\ Matched
          => /\ Len(last.original) = Len(last.processed)
             /\ \A i \in 1..Len(last.original) :
                   /\ last.processed[i] = StemChunk(last.original[i])
                   /\ last.original[i] = original_documents[last.indices[i]]
                   /\ last.processed[i] = documents[last.indices[i]]

\* Two chunks returned from a corpus of MaxChunks chunks, each with a stemmed
\* form that differs from its original text.
C13_Witness ==
    /\ Matched
    /\ Len(documents) = MaxChunks
    /\ Len(last.original) >= 2
    /\ \A i \in 1..Len(last.original) : last.processed[i] # last.original[i]

\* C14: reset_database() puts the whole index back in its initial state:
\* documents and original_documents empty, vectors unset, vectorizer
\* unfitted with no vocabulary.
C14_ResetRestoresInitialState ==
    [][last'.op = "reset_database"
       => /\ documents' = <<>>
          /\ original_documents' = <<>>
          /\ vectors' = None
          /\ vectorizer' = Unfitted]_vars

\* C15: with no document indexed, find_best_matches and chat signal an
\* error: no chunk is returned and the LLM is not called.
C15_EmptyIndexSignalsError ==
    (last.op \in {"find_best_matches", "chat"} /\ Len(documents) = 0)
    => /\ last.error # ""
       /\ last.original = <<>>
       /\ last.processed = <<>>
       /\ last.llm_calls = 0
       /\ last.response = <<>>

\* chat on an index that reset_database() emptied: the vectorizer is still
\* fitted, and the call fails on the unset vectors.
C15_Witness ==
    /\ last.op = "chat"
    /\ Len(documents) = 0
    /\ vectorizer.fitted
    /\ last.error = "AttributeError"

\* The chunks of a file.
FileChunks(file_name) == process_text(FileText(file_name), CHUNK_SIZE)

\* C16: after reset_database(); vectors = initialize(f) on an index that
\* held a corpus, every index find_best_matches selects is within the new
\* corpus and every chunk it returns is a chunk of f.
C16_NoStaleIndices ==
    [][(/\ last.op = "initialize"
        /\ last.after_reset
        /\ last.error = ""
        /\ last'.op \in {"find_best_matches", "chat"})
       => /\ Len(last'.similarities) \in {0, Len(FileChunks(last.file_name)[1])}
          /\ \A i \in 1..Len(last'.indices) :
                /\ last'.indices[i] \in 1..Len(FileChunks(last.file_name)[1])
                /\ last'.original[i]
                      = FileChunks(last.file_name)[1][last'.indices[i]]
                /\ last'.processed[i]
                      = FileChunks(last.file_name)[2][last'.indices[i]]]_vars

\* initialize(f) right after a reset_database() that discarded a corpus.
C16_Witness ==
    /\ last.op = "initialize"
    /\ last.after_reset
    /\ last.error = ""
    /\ original_documents = FileChunks(last.file_name)[1]
    /\ documents # <<>>

\* C17: initialize with a file type other than pdf, html or txt raises and
\* leaves documents, original_documents, the vectorizer and vectors as they
\* were, and these are all that find_best_matches reads besides its query.
C17_UnsupportedTypeChangesNothing ==
    [][(/\ last'.op = "initialize"
        /\ FileType(last'.file_name) \notin {"pdf", "html", "txt"})
       => /\ last'.error = "ValueError"
          /\ documents' = documents
          /\ original_documents' = original_documents
          /\ vectorizer' = vectorizer
          /\ vectors' = vectors]_vars

\* A failed initialize on an index that holds a corpus.
C17_Witness ==
    /\ last.op = "initialize"
    /\ last.error = "ValueError"
    /\ FileType(last.file_name) = "docx"
    /\ Len(documents) >= 2
    /\ vectors.set

\* C19: the similarities find_best_matches ranks by are computed from all
\* the words of the query, whatever its length.
C19_WholeQueryRanked ==
    Matched
    => \A k \in 1..Len(last.similarities) :
          last.similarities[k]
             = Similarity(StemChunk(last.fbm_query), vectors.rows[k])

\* The entries of a snapshot of the cache without their timestamps.
Untimed(entries) ==
    [i \in 1..Len(entries) |->
        [user_input |-> entries[i].user_input,
         search_result_context |-> entries[i].search_result_context,
         llm_response |-> entries[i].llm_response]]

\* C18: as long as no more rounds than the capacity of the cache were
\* recorded and the expiry duration has not passed since the first one, the
\* snapshot of the cache holds the entries of the list, in the same order,
\* and the composite prompt built from either is the same.
C18_BackendsInterchangeable ==
    (Len(conversation_history) <= maxsize /\ now < ttl)
    => /\ Untimed(Snapshot) = conversation_history
       /\ \A q \in UserQueries :
             CompositeQuery(Snapshot, q) = CompositeQuery(conversation_history, q)

\* C21: after every successful initialize, assigned or not, vectors is the
\* matrix fitted over the whole corpus, with one row per entry of documents
\* and the vocabulary of the current fit of vectorizer, and a query is
\* ranked over every entry of documents.
C21_VectorsOfCurrentCorpus ==
    [][/\ (last'.op = "initialize" /\ last'.error = "")
          => /\ vectors'.set
             /\ Len(vectors'.rows) = Len(documents')
             /\ vectors'.vocabulary = vectorizer'.vocabulary
             /\ vectors' = FitTransform(documents')
       /\ (last'.op = "find_best_matches" /\ last'.error = "")
          => Len(last'.similarities) = Len(documents')]_vars

\* C22: a call of add_to_conversation_cache made with the cache below
\* capacity and no entry expired adds exactly one entry to the snapshot and
\* leaves the earlier entries in place, at whatever clock reading it is made.
C22_RecordAddsOneEntry ==
    [][(/\ last'.op = "add_to_conversation_cache"
        /\ Len(conversation_ttl_cache.root) < maxsize
        /\ Len(Snapshot) = Len(conversation_ttl_cache.root))
       => /\ Len(Snapshot') = Len(Snapshot) + 1
          /\ \A i \in 1..Len(Snapshot) : Snapshot'[i] = Snapshot[i]]_vars

\* The smaller of two numbers.
Smaller(a, b) == IF a <= b THEN a ELSE b

\* C23: on a non-empty corpus of n chunks find_best_matches returns
\* min(top_n, n) chunks for every top_n >= 0; with top_n = 0 it returns two
\* empty lists.
C23_ReturnsMinTopN ==
    (/\ last.op = "find_best_matches"
     /\ HasSentence(last.fbm_query)
     /\ Len(documents) >= 1)
    => /\ last.error = ""
       /\ Len(last.original) = Smaller(last.top_n, Len(documents))
       /\ Len(last.processed) = Smaller(last.top_n, Len(documents))
       /\ last.top_n = 0 => last.original = <<>> /\ last.processed = <<>>

====
